---- MODULE Spec2Model ----
(***************************************************************************)
(* Model of src/tools/launcher/util/launcher_util.cc:                      *)
(*   BashEscapeArg, WindowsEscapeArg2  (argument quoting)                  *)
(*   RelativeTo, NormalizePath, AsAbsoluteWindowsPath                      *)
(*   PrintError, die                   (diagnostics, process exit)         *)
(* Strings are sequences of code points (wchar_t values).  C++ indices are *)
(* 0-based; At, SubStr and SubStrFrom translate them.                      *)
(***************************************************************************)
EXTENDS Integers, Sequences, FiniteSets, TLC

VARIABLES
  arg,            \* the argument handed to an escaping function
  escaped,        \* the string the escaping function returned
  qpc,            \* "start" | "win" | "bash" | "unused"
  threads,        \* the threads that call into the module
  op,             \* per thread: the function it calls
  path,           \* per thread: argument `path`
  base,           \* per thread: argument `base` (RelativeTo only)
  result,         \* per thread: the caller's string behind `result`, or the
                  \* string AsAbsoluteWindowsPath returned
  ret,            \* per thread: "pending" | "true" | "false"
  pc,             \* per thread: position inside the call
  msg,            \* per thread: which diagnostic PrintError / die was called with
  previous_mode,  \* per thread: PrintError's local previous_mode
  stderr_mode,    \* translation mode of stderr (process-wide)
  stderr_out,     \* per thread: the pieces it wrote to stderr, in order
  exited,         \* exit(1) has been called: the process is gone
  mode0           \* translation mode of stderr before any call started

vars == <<arg, escaped, qpc, threads, op, path, base, result, ret, pc, msg,
          previous_mode, stderr_mode, stderr_out, exited, mode0>>

quoteVars == <<arg, escaped, qpc>>

relVars == <<threads, op, path, base, result, ret, pc, msg, previous_mode,
             stderr_mode, stderr_out, exited, mode0>>

\* what no step of a call changes: the callers and their arguments
callVars == <<quoteVars, threads, op, path, base, mode0>>

----------------------------------------------------------------------------
(* Bounds *)

MaxLen == 4

MaxDepth == 3

NumThreads == 2

----------------------------------------------------------------------------
(* Characters *)

Quote == 34

Backslash == 92

Space == 32

Colon == 58

NUL == 0

\* a, space, tab, quote, backslash, U+0122, U+015C
Alphabet == {97, 32, 9, 34, 92, 290, 348}

\* the alphabet of ordinary characters, space, tab, quote and backslash
NarrowAlphabet == {97, 32, 9, 34, 92}

Strings(A, n) == UNION {[1..k -> A] : k \in 0..n}

Rep(c, n) == [k \in 1..n |-> c]

\* s[i] of a std::wstring: the terminator at i = size()
At(s, i) == IF i < Len(s) THEN s[i + 1] ELSE NUL

\* s.substr(pos, n), clipped to the end of s
SubStr(s, pos, n) ==
  SubSeq(s, pos + 1, IF pos + n > Len(s) THEN Len(s) ELSE pos + n)

\* s.substr(pos)
SubStrFrom(s, pos) == SubSeq(s, pos + 1, Len(s))

----------------------------------------------------------------------------
(* BashEscapeArg *)

BashEscapeCharNoBackslash(ch) ==
  IF ch = Quote THEN <<Backslash, Quote>> ELSE <<ch>>

\* the switch on one character
BashEscapeChar(ch) ==
  IF ch = Quote THEN <<Backslash, Quote>>
  ELSE IF ch = Backslash THEN <<Backslash, Backslash>>
  ELSE <<ch>>

RECURSIVE BashEscapeLoop(_, _, _)
\* for (const wchar_t ch : argument)
BashEscapeLoop(argument, k, escaped_arg) ==
  IF k > Len(argument) THEN escaped_arg
  ELSE BashEscapeLoop(argument, k + 1,
                      escaped_arg \o BashEscapeChar(argument[k]))

BashEscapeArg(argument) ==
  LET has_space == \E k \in 1..Len(argument) : argument[k] = Space
      open == IF has_space THEN <<Quote>> ELSE <<>>
      body == BashEscapeLoop(argument, 1, open)
  IN  IF argument = <<>> THEN <<Quote, Quote>>
      ELSE IF has_space THEN body \o <<Quote>> ELSE body

----------------------------------------------------------------------------
(* WindowsEscapeArg2 *)

\* char c = s[i]: the wide character narrowed to 8 bits
ToChar(w) == w % 256

NeedsEscapingOrBackslash(s) ==
  \E k \in 1..Len(s) : s[k] = Space \/ s[k] = Quote \/ s[k] = Backslash

\* the first scan: needs_escaping
NeedsEscaping(s) ==
  \E k \in 1..Len(s) : s[k] = Space \/ s[k] = Quote

RECURSIVE RunEnd(_, _)
\* while (j < s.size() && s[j] == '\\') j++
RunEnd(s, j) ==
  IF j < Len(s) /\ At(s, j) = Backslash THEN RunEnd(s, j + 1) ELSE j

TrailingRunUndoubled(run_len) == Rep(Backslash, run_len)

\* the run of backslashes goes to the end
TrailingRun(run_len) == Rep(Backslash, run_len * 2)

\* the run of backslashes is terminated by a quote
RunBeforeQuote(run_len) == Rep(Backslash, run_len * 2) \o <<Backslash, Quote>>

\* no quote found after the run
RunBeforeOther(run_len) == Rep(Backslash, run_len)

RECURSIVE EscapeLoop(_, _, _, _)
\* for (int i = 0; i < s.size(); ++i); the value is <<start, result>>
EscapeLoop(s, i, start, res) ==
  IF i >= Len(s) THEN <<start, res>>
  ELSE
    LET c == ToChar(At(s, i)) IN
    IF c = Quote \/ c = Backslash THEN
      LET copied == IF start >= 0 THEN res \o SubStr(s, start, i - start)
                    ELSE res
      IN
      IF c = Quote THEN
        EscapeLoop(s, i + 1, -1, copied \o <<Backslash, Quote>>)
      ELSE
        LET j == RunEnd(s, i + 1)
            run_len == j - i
        IN
        IF j = Len(s) THEN <<-1, copied \o TrailingRun(run_len)>>
        ELSE IF At(s, j) = Quote THEN
          EscapeLoop(s, i + run_len + 1, -1, copied \o RunBeforeQuote(run_len))
        ELSE
          EscapeLoop(s, i + run_len, -1, copied \o RunBeforeOther(run_len))
    ELSE
      EscapeLoop(s, i + 1, IF start < 0 THEN i ELSE start, res)

WindowsEscapeArg2(s) ==
  IF s = <<>> THEN <<Quote, Quote>>
  ELSE IF ~NeedsEscaping(s) THEN s
  ELSE
    LET loop == EscapeLoop(s, 0, 0, <<Quote>>)
        start == loop[1]
        res == loop[2]
        tail == IF start # -1 THEN SubStrFrom(s, start) ELSE <<>>
    IN  res \o tail \o <<Quote>>

----------------------------------------------------------------------------
(* The callers of the escaping functions *)

InitQuote ==
  /\ arg \in Strings(Alphabet, MaxLen)
  /\ escaped = <<>>
  /\ qpc = "start"
  /\ threads = {}
  /\ op = <<>> /\ exited = FALSE
  /\ path = <<>> /\ base = <<>> /\ result = <<>> /\ ret = <<>>
  /\ pc = <<>> /\ msg = <<>> /\ previous_mode = <<>> /\ stderr_out = <<>>
  /\ stderr_mode = "_O_TEXT"
  /\ mode0 = "_O_TEXT"

CallWindowsEscapeArg2 ==
  /\ qpc = "start"
  /\ escaped' = WindowsEscapeArg2(arg)
  /\ qpc' = "win"
  /\ UNCHANGED <<arg, relVars>>

CallBashEscapeArg ==
  /\ qpc = "start"
  /\ escaped' = BashEscapeArg(arg)
  /\ qpc' = "bash"
  /\ UNCHANGED <<arg, relVars>>

NextQuote == CallWindowsEscapeArg2 \/ CallBashEscapeArg

SpecQuote == InitQuote /\ [][NextQuote]_vars

----------------------------------------------------------------------------
(* RelativeTo: the computation *)

\* blaze_util::IsAbsolute: the path begins with a drive identifier, a letter
\* followed by a colon
IsAbsolute(p) ==
  /\ Len(p) >= 2
  /\ p[1] \in (65..90) \cup (97..122)
  /\ p[2] = Colon

DifferentDrivesWrongIndex(p, b) == At(p, 1) # At(b, 1)

\* path[0] != base[0]
DifferentDrives(p, b) == At(p, 0) # At(b, 0)

RECURSIVE MatchLoop(_, _, _, _)
\* while (path[pos] == base[pos] && base[pos] != L'\0');
\* the value is <<pos, back_slash_pos>>
MatchLoop(p, b, pos, back_slash_pos) ==
  IF At(p, pos) = At(b, pos) /\ At(b, pos) # NUL
  THEN MatchLoop(p, b, pos + 1,
                 IF At(p, pos) = Backslash THEN pos ELSE back_slash_pos)
  ELSE <<pos, back_slash_pos>>

KeepBackSlashPos(p, b, pos, back_slash_pos) == back_slash_pos

\* one of the paths is the parent of the other: back_slash_pos = pos
AdjustBackSlashPos(p, b, pos, back_slash_pos) ==
  IF \/ (At(b, pos) = NUL /\ At(p, pos) = Backslash)
     \/ (At(b, pos) = Backslash /\ At(p, pos) = NUL)
  THEN pos
  ELSE back_slash_pos

\* L"..\\"
DotDotSep == <<46, 46, Backslash>>

RECURSIVE DotDotLoop(_, _)
\* for (int i = back_slash_pos + 1; i < base.length(); i++)
DotDotLoop(b, i) ==
  IF i < Len(b)
  THEN (IF At(b, i) = Backslash THEN DotDotSep ELSE <<>>) \o DotDotLoop(b, i + 1)
  ELSE <<>>

DotDotPrefixNoFirst(b, back_slash_pos) == DotDotLoop(b, back_slash_pos + 1)

\* the ..\ prefix
DotDotPrefix(b, back_slash_pos) ==
  (IF back_slash_pos + 1 < Len(b) THEN DotDotSep ELSE <<>>)
    \o DotDotLoop(b, back_slash_pos + 1)

\* the not matched fragments of path
PathSuffix(p, back_slash_pos) ==
  IF back_slash_pos # Len(p) THEN SubStrFrom(p, back_slash_pos + 1) ELSE <<>>

\* the string RelativeTo assigns to *result when it returns true
RelativeToResult(p, b) ==
  LET m == MatchLoop(p, b, 0, -1)
      pos == m[1]
      back_slash_pos == AdjustBackSlashPos(p, b, pos, m[2])
  IN  IF At(b, pos) = NUL /\ At(p, pos) = NUL THEN <<>>
      ELSE DotDotPrefix(b, back_slash_pos) \o PathSuffix(p, back_slash_pos)

----------------------------------------------------------------------------
(* RelativeTo and PrintError, step by step, for each calling thread *)

\* the value of the caller's string before the call
InitialResult == <<120>>

Names == {<<97>>, <<98>>, <<97, 98>>}

SegLists == UNION {[1..k -> Names] : k \in 0..MaxDepth}

RECURSIVE Join(_)
Join(segs) ==
  IF segs = <<>> THEN <<>>
  ELSE IF Len(segs) = 1 THEN segs[1]
  ELSE segs[1] \o <<Backslash>> \o Join(Tail(segs))

\* relative, c:\ and d:\
Roots == {<<>>, <<99, Colon, Backslash>>, <<100, Colon, Backslash>>}

NormalizedPaths == {r \o Join(segs) : r \in Roots, segs \in SegLists}

InitialModes == {"_O_TEXT", "_O_BINARY"}

\* arguments of NormalizePath and AsAbsoluteWindowsPath: c:\a, a, C:/A
PathInputs == {<<99, Colon, Backslash, 97>>, <<97>>, <<67, Colon, 47, 65>>}

\* <<op, path, base>> of the concurrent callers: RelativeTo with a success, a
\* mix of absolute and relative, two drives; the two other entry points
ConcInputs ==
  { <<"RelativeTo", <<99, Colon, Backslash, 97>>,
                    <<99, Colon, Backslash, 97, 98>> >>,
    <<"RelativeTo", <<99, Colon, Backslash, 97>>, <<97>> >>,
    <<"RelativeTo", <<99, Colon, Backslash, 97>>,
                    <<100, Colon, Backslash, 97>> >>,
    <<"NormalizePath", <<67, Colon, 47, 65>>, <<>> >>,
    <<"AsAbsoluteWindowsPath", <<97>>, <<>> >> }

InitCommon ==
  /\ arg = <<>>
  /\ escaped = <<>>
  /\ qpc = "unused"
  /\ result = [t \in threads |-> InitialResult]
  /\ ret = [t \in threads |-> "pending"]
  /\ pc = [t \in threads |-> "call"]
  /\ msg = [t \in threads |-> "none"]
  /\ previous_mode = [t \in threads |-> "unset"]
  /\ stderr_out = [t \in threads |-> <<>>]
  /\ exited = FALSE
  /\ stderr_mode \in InitialModes
  /\ mode0 = stderr_mode

\* one caller: RelativeTo on any pair of normalized paths, or one of the two
\* other entry points
InitRelativeTo ==
  /\ threads = {1}
  /\ \/ /\ op = [t \in threads |-> "RelativeTo"]
        /\ path \in [threads -> NormalizedPaths]
        /\ base \in [threads -> NormalizedPaths]
     \/ /\ op \in [threads -> {"NormalizePath", "AsAbsoluteWindowsPath"}]
        /\ path \in [threads -> PathInputs]
        /\ base = [t \in threads |-> <<>>]
  /\ InitCommon

\* NumThreads callers
InitConcurrent ==
  /\ threads = 1..NumThreads
  /\ \E f \in [threads -> ConcInputs] :
       /\ op = [t \in threads |-> f[t][1]]
       /\ path = [t \in threads |-> f[t][2]]
       /\ base = [t \in threads |-> f[t][3]]
  /\ InitCommon

EnterPrintErrorClearsResult(t, m) ==
  /\ pc' = [pc EXCEPT ![t] = "setmode"]
  /\ msg' = [msg EXCEPT ![t] = m]
  /\ result' = [result EXCEPT ![t] = <<>>]
  /\ UNCHANGED <<callVars, ret, previous_mode, stderr_mode, stderr_out,
                 exited>>

\* a failed check: PrintError(...) is called, *result is not touched
EnterPrintError(t, m) ==
  /\ pc' = [pc EXCEPT ![t] = "setmode"]
  /\ msg' = [msg EXCEPT ![t] = m]
  /\ UNCHANGED <<callVars, result, ret, previous_mode, stderr_mode,
                 stderr_out, exited>>

\* return true with *result assigned
ReturnTrue(t, value) ==
  /\ result' = [result EXCEPT ![t] = value]
  /\ ret' = [ret EXCEPT ![t] = "true"]
  /\ pc' = [pc EXCEPT ![t] = "done"]
  /\ UNCHANGED <<callVars, msg, previous_mode, stderr_mode, stderr_out,
                 exited>>

\* if (IsAbsolute(path) != IsAbsolute(base))
RelativeToMixed(t) ==
  /\ ~exited
  /\ op[t] = "RelativeTo"
  /\ pc[t] = "call"
  /\ IsAbsolute(path[t]) # IsAbsolute(base[t])
  /\ EnterPrintError(t, "absolute and non-absolute")

\* if (IsAbsolute(path) && IsAbsolute(base) && path[0] != base[0])
RelativeToDrives(t) ==
  /\ ~exited
  /\ op[t] = "RelativeTo"
  /\ pc[t] = "call"
  /\ IsAbsolute(path[t]) = IsAbsolute(base[t])
  /\ IsAbsolute(path[t]) /\ IsAbsolute(base[t])
  /\ DifferentDrives(path[t], base[t])
  /\ EnterPrintError(t, "different drives")

\* both checks pass: the rest of the function, return true
RelativeToOk(t) ==
  /\ ~exited
  /\ op[t] = "RelativeTo"
  /\ pc[t] = "call"
  /\ IsAbsolute(path[t]) = IsAbsolute(base[t])
  /\ ~(IsAbsolute(path[t]) /\ IsAbsolute(base[t])
       /\ DifferentDrives(path[t], base[t]))
  /\ ReturnTrue(t, RelativeToResult(path[t], base[t]))

\* blaze_util::AsWindowsPath, when it succeeds: separators canonicalized
AsWindowsPath(p) == [k \in 1..Len(p) |-> IF p[k] = 47 THEN Backslash ELSE p[k]]

\* ::tolower on one character
ToLower(ch) == IF ch \in 65..90 THEN ch + 32 ELSE ch

\* std::transform(result->begin(), result->end(), result->begin(), ::tolower)
ToLowerAll(p) == [k \in 1..Len(p) |-> ToLower(p[k])]

\* NormalizePath: blaze_util::AsWindowsPath failed
NormalizePathFail(t) ==
  /\ ~exited
  /\ op[t] = "NormalizePath"
  /\ pc[t] = "call"
  /\ EnterPrintError(t, "Failed to normalize")

\* NormalizePath: blaze_util::AsWindowsPath succeeded, lower-case, return true
NormalizePathOk(t) ==
  /\ ~exited
  /\ op[t] = "NormalizePath"
  /\ pc[t] = "call"
  /\ ReturnTrue(t, ToLowerAll(AsWindowsPath(path[t])))

\* the directory a relative path is resolved against: c:\
Cwd == <<99, Colon, Backslash>>

\* blaze_util::AsAbsoluteWindowsPath, when it succeeds
AbsoluteWindowsPath(p) ==
  AsWindowsPath(IF IsAbsolute(p) THEN p ELSE Cwd \o p)

\* AsAbsoluteWindowsPath: the conversion succeeded, return wpath
AsAbsoluteWindowsPathOk(t) ==
  /\ ~exited
  /\ op[t] = "AsAbsoluteWindowsPath"
  /\ pc[t] = "call"
  /\ ReturnTrue(t, AbsoluteWindowsPath(path[t]))

\* AsAbsoluteWindowsPath: the conversion failed, die(...)
AsAbsoluteWindowsPathDie(t) ==
  /\ ~exited
  /\ op[t] = "AsAbsoluteWindowsPath"
  /\ pc[t] = "call"
  /\ pc' = [pc EXCEPT ![t] = "die_setmode"]
  /\ msg' = [msg EXCEPT ![t] = "Couldn't convert to absolute Windows path"]
  /\ UNCHANGED <<callVars, result, ret, previous_mode, stderr_mode,
                 stderr_out, exited>>

\* int previous_mode = _setmode(_fileno(stderr), _O_U8TEXT);
\* _setmode returns -1, and changes nothing, if it fails
PrintError_setmode(t) ==
  /\ ~exited
  /\ pc[t] = "setmode"
  /\ \E ok \in BOOLEAN :
       IF ok
       THEN /\ previous_mode' = [previous_mode EXCEPT ![t] = stderr_mode]
            /\ stderr_mode' = "_O_U8TEXT"
       ELSE /\ previous_mode' = [previous_mode EXCEPT ![t] = "-1"]
            /\ UNCHANGED stderr_mode
  /\ pc' = [pc EXCEPT ![t] = "fputws"]
  /\ UNCHANGED <<callVars, result, ret, msg, stderr_out, exited>>

\* one write to stderr, then on to the next statement
Write(t, piece, next) ==
  /\ stderr_out' = [stderr_out EXCEPT ![t] = Append(@, piece)]
  /\ pc' = [pc EXCEPT ![t] = next]
  /\ UNCHANGED <<callVars, result, ret, msg, previous_mode, stderr_mode,
                 exited>>

\* fputws(L"LAUNCHER ERROR: ", stderr);
PrintError_fputws(t) ==
  /\ ~exited
  /\ pc[t] = "fputws"
  /\ Write(t, "LAUNCHER ERROR: ", "vfwprintf")

\* vfwprintf(stderr, format, ap);
PrintError_vfwprintf(t) ==
  /\ ~exited
  /\ pc[t] = "vfwprintf"
  /\ Write(t, msg[t], "fputwc")

\* fputwc(L'\n', stderr);
PrintError_fputwc(t) ==
  /\ ~exited
  /\ pc[t] = "fputwc"
  /\ Write(t, "\n", "restore")

\* if (previous_mode != -1) _setmode(_fileno(stderr), previous_mode);
PrintError_restore(t) ==
  /\ ~exited
  /\ pc[t] = "restore"
  /\ stderr_mode' = IF previous_mode[t] # "-1" THEN previous_mode[t]
                    ELSE stderr_mode
  /\ pc' = [pc EXCEPT ![t] = "return"]
  /\ UNCHANGED <<callVars, result, ret, msg, previous_mode, stderr_out,
                 exited>>

\* return false; in RelativeTo and in NormalizePath
ReturnFalse(t) ==
  /\ ~exited
  /\ pc[t] = "return"
  /\ ret' = [ret EXCEPT ![t] = "false"]
  /\ pc' = [pc EXCEPT ![t] = "done"]
  /\ UNCHANGED <<callVars, result, msg, previous_mode, stderr_mode,
                 stderr_out, exited>>

\* die: _setmode(_fileno(stderr), _O_U8TEXT); the previous mode is dropped
die_setmode(t) ==
  /\ ~exited
  /\ pc[t] = "die_setmode"
  /\ \E ok \in BOOLEAN :
       stderr_mode' = IF ok THEN "_O_U8TEXT" ELSE stderr_mode
  /\ pc' = [pc EXCEPT ![t] = "die_fputws"]
  /\ UNCHANGED <<callVars, result, ret, msg, previous_mode, stderr_out,
                 exited>>

\* die: fputws(L"LAUNCHER ERROR: ", stderr);
die_fputws(t) ==
  /\ ~exited
  /\ pc[t] = "die_fputws"
  /\ Write(t, "LAUNCHER ERROR: ", "die_vfwprintf")

\* die: vfwprintf(stderr, format, ap);
die_vfwprintf(t) ==
  /\ ~exited
  /\ pc[t] = "die_vfwprintf"
  /\ Write(t, msg[t], "die_fputwc")

\* die: fputwc(L'\n', stderr);
die_fputwc(t) ==
  /\ ~exited
  /\ pc[t] = "die_fputwc"
  /\ Write(t, "\n", "die_exit")

\* die: exit(1); the mode of stderr is not restored, no thread runs on
die_exit(t) ==
  /\ ~exited
  /\ pc[t] = "die_exit"
  /\ exited' = TRUE
  /\ pc' = [pc EXCEPT ![t] = "exited"]
  /\ UNCHANGED <<callVars, result, ret, msg, previous_mode, stderr_mode,
                 stderr_out>>

NextThreads ==
  \/ \E t \in threads : RelativeToMixed(t)
  \/ \E t \in threads : RelativeToDrives(t)
  \/ \E t \in threads : RelativeToOk(t)
  \/ \E t \in threads : NormalizePathFail(t)
  \/ \E t \in threads : NormalizePathOk(t)
  \/ \E t \in threads : AsAbsoluteWindowsPathOk(t)
  \/ \E t \in threads : AsAbsoluteWindowsPathDie(t)
  \/ \E t \in threads : PrintError_setmode(t)
  \/ \E t \in threads : PrintError_fputws(t)
  \/ \E t \in threads : PrintError_vfwprintf(t)
  \/ \E t \in threads : PrintError_fputwc(t)
  \/ \E t \in threads : PrintError_restore(t)
  \/ \E t \in threads : ReturnFalse(t)
  \/ \E t \in threads : die_setmode(t)
  \/ \E t \in threads : die_fputws(t)
  \/ \E t \in threads : die_vfwprintf(t)
  \/ \E t \in threads : die_fputwc(t)
  \/ \E t \in threads : die_exit(t)

SpecRelativeTo == InitRelativeTo /\ [][NextThreads]_vars

SpecConcurrent == InitConcurrent /\ [][NextThreads]_vars

Init == InitQuote \/ InitRelativeTo \/ InitConcurrent

Next == NextQuote \/ NextThreads

Spec == Init /\ [][Next]_vars

----------------------------------------------------------------------------
(* The native argv-splitting rule, used to state the round trip *)

IsWhitespace(ch) == ch = 32 \/ ch = 9

RECURSIVE CountBackslashes(_, _)
CountBackslashes(cmd, k) ==
  IF k <= Len(cmd) /\ cmd[k] = 92 THEN 1 + CountBackslashes(cmd, k + 1) ELSE 0

RECURSIVE Decode(_, _, _, _, _, _)
\* k: next position (1-based); inq: inside quotes; cur: the token so far;
\* have: a token has started; args: the finished tokens
Decode(cmd, k, inq, cur, have, args) ==
  IF k > Len(cmd) THEN (IF have THEN Append(args, cur) ELSE args)
  ELSE IF cmd[k] = 92 THEN
    LET n == CountBackslashes(cmd, k)
        after == k + n
    IN  IF after <= Len(cmd) /\ cmd[after] = 34 THEN
          IF n % 2 = 0
          THEN Decode(cmd, after + 1, ~inq, cur \o Rep(92, n \div 2), TRUE, args)
          ELSE Decode(cmd, after + 1, inq,
                      cur \o Rep(92, n \div 2) \o <<34>>, TRUE, args)
        ELSE Decode(cmd, after, inq, cur \o Rep(92, n), TRUE, args)
  ELSE IF cmd[k] = 34 THEN Decode(cmd, k + 1, ~inq, cur, TRUE, args)
  ELSE IF IsWhitespace(cmd[k]) /\ ~inq THEN
    Decode(cmd, k + 1, inq, <<>>, FALSE,
           IF have THEN Append(args, cur) ELSE args)
  ELSE Decode(cmd, k + 1, inq, Append(cur, cmd[k]), TRUE, args)

NativeArgv(cmd) == Decode(cmd, 1, FALSE, <<>>, FALSE, <<>>)

HasSpaceOrQuote(s) == \E k \in 1..Len(s) : s[k] = 32 \/ s[k] = 34

\* length of the run of backslashes that ends s
RECURSIVE TrailingBackslashes(_)
TrailingBackslashes(s) ==
  IF s # <<>> /\ s[Len(s)] = 92
  THEN 1 + TrailingBackslashes(SubSeq(s, 1, Len(s) - 1)) ELSE 0

IsOrdinary(ch) == ch # 34 /\ ch # 92

----------------------------------------------------------------------------
(* Claims about WindowsEscapeArg2 *)

\* C1: for every string s over ordinary characters, space, tab, quote and
\* backslash, splitting WindowsEscapeArg2(s) with the native argv rule gives
\* exactly one argument, equal to s.
C1_RoundTrip ==
  (qpc = "win" /\ arg \in Strings(NarrowAlphabet, Len(arg)))
    => NativeArgv(escaped) = <<arg>>

\* C4 as stated: every string without a space and without a quote is
\* returned unchanged by WindowsEscapeArg2.
C4_NoOpAnyString ==
  (qpc = "win" /\ ~HasSpaceOrQuote(arg)) => escaped = arg

\* C4 amended: every NON-EMPTY string without a space and without a quote is
\* returned unchanged by WindowsEscapeArg2 (the empty string becomes two
\* quotes).
C4_NoOpNonEmpty ==
  /\ (qpc = "win" /\ arg # <<>> /\ ~HasSpaceOrQuote(arg)) => escaped = arg
  /\ (qpc = "win" /\ arg = <<>>) => escaped = <<34, 34>>

C4_Witness ==
  /\ qpc = "win"
  /\ Len(arg) >= 2
  /\ ~HasSpaceOrQuote(arg)
  /\ arg[Len(arg)] = 92
  /\ escaped = arg

\* C5 as stated: an input that ends in a run of n >= 1 backslashes is
\* returned quote-wrapped with that run emitted as 2n backslashes right
\* before the closing quote.
C5_TrailingRunAlwaysQuoted ==
  LET n == TrailingBackslashes(arg)
      m == Len(escaped)
  IN  (qpc = "win" /\ n >= 1) =>
        /\ m >= 2 * n + 2
        /\ escaped[1] = 34
        /\ escaped[m] = 34
        /\ \A k \in 1..(2 * n) : escaped[m - k] = 92

\* C5 amended: an input that contains a space or a quote and ends in a run
\* of n >= 1 backslashes is returned quote-wrapped, ending in 2n backslashes
\* and the closing quote; these are exactly 2n (the character before them is
\* not a backslash) when the run is the whole scanned run, i.e. the input
\* character before it does not narrow to a backslash.  An input without
\* space and quote that ends in backslashes is returned unchanged.
C5_TrailingRun ==
  LET n == TrailingBackslashes(arg)
      m == Len(escaped)
      before == Len(arg) - n
  IN  (qpc = "win" /\ n >= 1) =>
        IF HasSpaceOrQuote(arg) THEN
          /\ m >= 2 * n + 2
          /\ escaped[1] = 34
          /\ escaped[m] = 34
          /\ \A k \in 1..(2 * n) : escaped[m - k] = 92
          /\ arg[before] % 256 # 92 => escaped[m - 2 * n - 1] # 92
        ELSE escaped = arg

C5_Witness ==
  /\ qpc = "win"
  /\ arg = <<97, 32, 92, 92>>
  /\ escaped = <<34, 97, 32, 92, 92, 92, 92, 34>>

\* C10: in a quoted input only the code points 0x22 and 0x5C are handled as
\* quote and backslash; every other character is copied, so the ordinary
\* characters of the output are the ordinary characters of the input, in
\* order.
C10_OrdinaryCopied ==
  (qpc = "win" /\ HasSpaceOrQuote(arg)) =>
    SelectSeq(escaped, IsOrdinary) = SelectSeq(arg, IsOrdinary)

----------------------------------------------------------------------------
(* Claims about BashEscapeArg *)

\* number of quotes and backslashes among the first k characters of s
RECURSIVE SpecialsBefore(_, _)
SpecialsBefore(s, k) ==
  IF k = 0 THEN 0
  ELSE SpecialsBefore(s, k - 1) + (IF s[k] = 34 \/ s[k] = 92 THEN 1 ELSE 0)

\* body is s with a backslash put in front of every quote and backslash
IsBashBody(body, s) ==
  /\ Len(body) = Len(s) + SpecialsBefore(s, Len(s))
  /\ \A k \in 1..Len(s) :
       LET at == k + SpecialsBefore(s, k - 1) IN
       IF s[k] = 34 \/ s[k] = 92
       THEN body[at] = 92 /\ body[at + 1] = s[k]
       ELSE body[at] = s[k]

\* C7: BashEscapeArg gives two quotes for the empty string; otherwise the
\* input with every quote and every backslash preceded by a backslash, all
\* other characters copied in order, wrapped in one pair of quotes if and
\* only if the input contains a space.
C7_BashRuleTable ==
  qpc = "bash" =>
    IF arg = <<>> THEN escaped = <<34, 34>>
    ELSE IF \E k \in 1..Len(arg) : arg[k] = 32
    THEN /\ Len(escaped) >= 2
         /\ escaped[1] = 34
         /\ escaped[Len(escaped)] = 34
         /\ IsBashBody(SubSeq(escaped, 2, Len(escaped) - 1), arg)
    ELSE IsBashBody(escaped, arg)

C7_Witness ==
  /\ qpc = "bash"
  /\ arg = <<92, 34, 32, 92>>
  /\ escaped = <<34, 92, 92, 92, 34, 32, 92, 92, 34>>

----------------------------------------------------------------------------
(* Lexical resolution of a relative path, used to state the consistency law *)

RECURSIVE SplitSegs(_, _, _)
\* the non-empty segments of s between separators; cur is the open segment
SplitSegs(s, k, cur) ==
  IF k > Len(s) THEN (IF cur = <<>> THEN <<>> ELSE <<cur>>)
  ELSE IF s[k] = 92
  THEN (IF cur = <<>> THEN <<>> ELSE <<cur>>) \o SplitSegs(s, k + 1, <<>>)
  ELSE SplitSegs(s, k + 1, Append(cur, s[k]))

\* the drive root of an absolute path, empty for a relative path
RootOf(p) ==
  IF Len(p) >= 3 /\ p[2] = 58 /\ p[3] = 92 THEN SubSeq(p, 1, 3) ELSE <<>>

RECURSIVE ApplySegs(_, _)
\* `..` removes the last segment, every other segment is appended
ApplySegs(segs, rel) ==
  IF rel = <<>> THEN segs
  ELSE IF Head(rel) = <<46, 46>> /\ segs # <<>>
  THEN ApplySegs(SubSeq(segs, 1, Len(segs) - 1), Tail(rel))
  ELSE ApplySegs(Append(segs, Head(rel)), Tail(rel))

RECURSIVE JoinSegs(_)
JoinSegs(segs) ==
  IF segs = <<>> THEN <<>>
  ELSE IF Len(segs) = 1 THEN segs[1]
  ELSE JoinSegs(SubSeq(segs, 1, Len(segs) - 1)) \o <<92>> \o segs[Len(segs)]

Resolve(b, rel) ==
  LET root == RootOf(b)
      segs == SplitSegs(SubSeq(b, Len(root) + 1, Len(b)), 1, <<>>)
  IN  root \o JoinSegs(ApplySegs(segs, SplitSegs(rel, 1, <<>>)))

----------------------------------------------------------------------------
(* Claims about RelativeTo *)

\* C2: for every pair of normalized paths that are both relative or both
\* absolute on the same drive, RelativeTo succeeds and resolving its result
\* against base reproduces path exactly.
C2_ConsistencyLaw ==
  \A t \in threads :
    (op[t] = "RelativeTo" /\ pc[t] = "done"
       /\ RootOf(path[t]) = RootOf(base[t])) =>
      /\ ret[t] = "true"
      /\ Resolve(base[t], result[t]) = path[t]

C2_Witness ==
  \E t \in threads :
    /\ op[t] = "RelativeTo"
    /\ pc[t] = "done"
    /\ path[t] = <<99, 58, 92, 97, 92, 98>>
    /\ base[t] = <<99, 58, 92, 97, 92, 97, 98, 92, 98>>
    /\ result[t] = <<46, 46, 92, 46, 46, 92, 98>>

\* C3: RelativeTo returns failure exactly when one of path and base is
\* absolute and the other is not, or both are absolute with different drive
\* identifiers; for every other pair it returns success.
C3_FailsExactlyOnMismatch ==
  \A t \in threads :
    (op[t] = "RelativeTo" /\ pc[t] = "done") =>
      /\ ret[t] \in {"true", "false"}
      /\ ret[t] = "false" <=>
           \/ (RootOf(path[t]) = <<>>) # (RootOf(base[t]) = <<>>)
           \/ /\ RootOf(path[t]) # <<>>
              /\ RootOf(base[t]) # <<>>
              /\ RootOf(path[t]) # RootOf(base[t])

C3_Witness ==
  \E t \in threads :
    /\ op[t] = "RelativeTo"
    /\ pc[t] = "done"
    /\ ret[t] = "false"
    /\ RootOf(path[t]) = <<99, 58, 92>>
    /\ RootOf(base[t]) = <<100, 58, 92>>

\* C6 as stated: when base = path + `\` + one segment the result is exactly
\* `..`; when path = base + `\` + remainder the result is the remainder.
C6_AncestorNoSeparator ==
  \A t \in threads :
    (op[t] = "RelativeTo" /\ pc[t] = "done" /\ ret[t] = "true") =>
      /\ \A n \in Names :
           (path[t] # <<>> /\ base[t] = path[t] \o <<92>> \o n)
             => result[t] = <<46, 46>>
      /\ \A k \in 1..Len(path[t]) :
           (base[t] # <<>> /\ SubSeq(path[t], 1, k) = base[t] \o <<92>>)
             => result[t] = SubSeq(path[t], k + 1, Len(path[t]))

\* C6 amended: when base = path + `\` + one segment the result is exactly
\* `..\`, one ascent WITH a trailing separator and no trailing segment; when
\* path = base + `\` + remainder the result is the remainder, with no `..`
\* prefix and no leading separator.
C6_AncestorCases ==
  \A t \in threads :
    (op[t] = "RelativeTo" /\ pc[t] = "done" /\ ret[t] = "true") =>
      /\ \A n \in Names :
           (path[t] # <<>> /\ base[t] = path[t] \o <<92>> \o n)
             => result[t] = <<46, 46, 92>>
      /\ \A k \in 1..Len(path[t]) :
           (base[t] # <<>> /\ SubSeq(path[t], 1, k) = base[t] \o <<92>>)
             => result[t] = SubSeq(path[t], k + 1, Len(path[t]))

C6_Witness ==
  \E t \in threads :
    /\ op[t] = "RelativeTo"
    /\ pc[t] = "done"
    /\ path[t] = <<99, 58, 92, 97>>
    /\ base[t] = <<99, 58, 92, 97, 92, 98>>
    /\ result[t] = <<46, 46, 92>>

\* C8 as stated: a failing RelativeTo call writes nothing to the diagnostic
\* stream and leaves the caller's result string unchanged.
C8_FailureIsSilent ==
  \A t \in threads :
    op[t] = "RelativeTo" =>
      /\ stderr_out[t] = <<>>
      /\ ret[t] = "false" => result[t] = InitialResult

\* C8 amended: a failing RelativeTo call writes one diagnostic message
\* ("LAUNCHER ERROR: ", the message, a newline) to stderr through PrintError;
\* it then returns the failure value to its caller, without ending the
\* process, and leaves the caller's result string unchanged.  A successful
\* call writes nothing.
C8_FailureReportsOnce ==
  \A t \in threads :
    op[t] = "RelativeTo" =>
      /\ ret[t] = "false" =>
           /\ pc[t] = "done"
           /\ result[t] = InitialResult
           /\ stderr_out[t] = <<"LAUNCHER ERROR: ", msg[t], "\n">>
           /\ msg[t] \in {"absolute and non-absolute", "different drives"}
      /\ ret[t] # "true" => result[t] = InitialResult
      /\ ret[t] = "true" => stderr_out[t] = <<>>
      /\ threads = {t} => ~exited

C8_Witness ==
  \E t \in threads :
    /\ op[t] = "RelativeTo"
    /\ pc[t] = "done"
    /\ ret[t] = "false"
    /\ path[t] = <<99, 58, 92, 97>>
    /\ base[t] = <<97>>
    /\ Len(stderr_out[t]) = 3

\* C9: when every thread calls RelativeTo, once all concurrent calls have
\* returned, the translation mode of
\* stderr is the one it had before any call started.
C9_ModeRestoredAfterAllCalls ==
  (\A t \in threads : op[t] = "RelativeTo" /\ pc[t] = "done")
    => stderr_mode = mode0

====
